---- MODULE Spec2Model ----
(***************************************************************************)
(* Model of images/capi/hack/customize-ova.py: the OVFCustomizer class     *)
(* (load, mutators, diff, commit of descriptor and manifest) and the       *)
(* command-line script that drives it.                                     *)
(*                                                                         *)
(* Text is modelled as sequences of tokens.  A property key is a sequence  *)
(* of characters; DQ stands for the double-quote character, which matters  *)
(* because the key is pasted unescaped into an XPath string literal.       *)
(***************************************************************************)
EXTENDS Naturals, Sequences, FiniteSets, TLC

\* ------------------------------------------------------------------ bounds

\* Mutator calls made on one editor object in the API-level specification.
MaxCalls == 2

\* ------------------------------------------------------- generic helpers

RECURSIVE IndexOf(_, _, _)
\* The first position >= i of s holding x, 0 when there is none.
IndexOf(s, x, i) ==
    IF i > Len(s) THEN 0
    ELSE IF s[i] = x THEN i
    ELSE IndexOf(s, x, i + 1)

RECURSIVE SplitOn(_, _)
\* s cut at every occurrence of x (x dropped), as str.split does.
SplitOn(s, x) ==
    LET j == IndexOf(s, x, 1) IN
    IF j = 0 THEN <<s>>
    ELSE <<SubSeq(s, 1, j - 1)>> \o SplitOn(SubSeq(s, j + 1, Len(s)), x)

\* str.startswith
startswith(line, prefix) ==
    /\ Len(prefix) <= Len(line)
    /\ SubSeq(line, 1, Len(prefix)) = prefix

RECURSIVE SelectFirst(_, _, _)
\* Position of the first child of kids with the given tag, 0 when none.
SelectFirst(kids, tag, i) ==
    IF i > Len(kids) THEN 0
    ELSE IF kids[i].tag = tag THEN i
    ELSE SelectFirst(kids, tag, i + 1)

\* ------------------------------------------------------------ input sets

DQ == "DQ"

KeyA    == <<"a">>
KeyB    == <<"b">>
\* " or "a"="a       -> [@key="" or "a"="a"]     true of every node
KeyAll  == <<DQ, "or", DQ, "a", DQ, "=", DQ, "a">>
\* b" and "a"="      -> [@key="b" and "a"=""]    true of no node
KeyNone == <<"b", DQ, "and", DQ, "a", DQ, "=", DQ>>
\* a"                -> [@key="a""]              unterminated literal
KeyBad  == <<"a", DQ>>

Keys == {KeyA, KeyB, KeyAll, KeyNone, KeyBad}
Values == {"v1", "v2"}

\* What the call-by-call specification draws its arguments from.
CallKeys == {KeyA, KeyAll, KeyNone}
CallExtraKeys == {KeyA}

\* ------------------------------------------------- XPath key predicates
\* The predicate text that '...[@ovf:key="%s"]' % key builds (lines 104, 119),
\* evaluated as XPath 1.0 does on the expressions Keys ranges over: string
\* literals, the key attribute, "=", "and", "or".

XpErr == [t |-> "err", b |-> FALSE, s |-> <<>>, m |-> {}]
XpBool(b) == [t |-> "bool", b |-> b, s |-> <<>>, m |-> {}]
XpStr(s) == [t |-> "str", b |-> FALSE, s |-> s, m |-> {}]
XpSet(m) == [t |-> "set", b |-> FALSE, s |-> <<>>, m |-> m]

LexErr == [k |-> "err", s |-> <<>>]

RECURSIVE xpLex(_)
\* Tokens to lexemes: a DQ opens a literal that runs to the next DQ.
xpLex(ts) ==
    IF ts = <<>> THEN <<>>
    ELSE IF Head(ts) = DQ
    THEN LET rest == Tail(ts)
             j == IndexOf(rest, DQ, 1)
         IN  IF j = 0 THEN <<LexErr>>
             ELSE <<[k |-> "lit", s |-> SubSeq(rest, 1, j - 1)]>>
                  \o xpLex(SubSeq(rest, j + 1, Len(rest)))
    ELSE <<[k |-> "tok", s |-> <<Head(ts)>>]>> \o xpLex(Tail(ts))

XpOp(name) == [k |-> "tok", s |-> <<name>>]

\* boolean() of XPath 1.0
xpToBool(v) ==
    CASE v.t = "bool" -> v.b
      [] v.t = "str" -> v.s # <<>>
      [] OTHER -> v.m # {}

\* The "=" comparison of XPath 1.0
xpEquals(x, y) ==
    IF x.t = "err" \/ y.t = "err" THEN XpErr
    ELSE IF x.t = "bool" \/ y.t = "bool" THEN XpBool(xpToBool(x) = xpToBool(y))
    ELSE IF x.t = "set" /\ y.t = "set" THEN XpBool(x.m \cap y.m # {})
    ELSE IF x.t = "set" THEN XpBool(y.s \in x.m)
    ELSE IF y.t = "set" THEN XpBool(x.s \in y.m)
    ELSE XpBool(x.s = y.s)

\* A primary expression: one literal, the key attribute, or a child name test
\* (the matched elements have no element children, so it selects nothing).
xpPrimary(ls, nodeKey) ==
    IF Len(ls) # 1 THEN XpErr
    ELSE IF ls[1].k = "lit" THEN XpStr(ls[1].s)
    ELSE IF ls[1].k = "err" THEN XpErr
    ELSE IF ls[1].s = <<"@key">> THEN XpSet({nodeKey})
    ELSE IF ls[1].s[1] \in {"=", "and", "or"} THEN XpErr
    ELSE XpSet({})

RECURSIVE xpEqChain(_, _, _)
\* a = b = c is (a = b) = c
xpEqChain(acc, parts, nodeKey) ==
    IF parts = <<>> THEN acc
    ELSE xpEqChain(xpEquals(acc, xpPrimary(Head(parts), nodeKey)),
                   Tail(parts), nodeKey)

xpEqExpr(ls, nodeKey) ==
    LET parts == SplitOn(ls, XpOp("=")) IN
    xpEqChain(xpPrimary(Head(parts), nodeKey), Tail(parts), nodeKey)

xpAndExpr(ls, nodeKey) ==
    LET parts == SplitOn(ls, XpOp("and"))
        vals == [i \in 1..Len(parts) |-> xpEqExpr(parts[i], nodeKey)]
    IN  IF \E i \in 1..Len(parts) : vals[i].t = "err" THEN XpErr
        ELSE IF Len(parts) = 1 THEN vals[1]
        ELSE XpBool(\A i \in 1..Len(parts) : xpToBool(vals[i]))

xpOrExpr(ls, nodeKey) ==
    LET parts == SplitOn(ls, XpOp("or"))
        vals == [i \in 1..Len(parts) |-> xpAndExpr(parts[i], nodeKey)]
    IN  IF \E i \in 1..Len(parts) : vals[i].t = "err" THEN XpErr
        ELSE IF Len(parts) = 1 THEN vals[1]
        ELSE XpBool(\E i \in 1..Len(parts) : xpToBool(vals[i]))

\* '[@<ns>:key="%s"]' % key
keyPredicate(key) == <<"@key", "=", DQ>> \o key \o <<DQ>>

\* Whether the expression compiles (a syntax error raises XPathEvalError).
xpathValid(key) == xpOrExpr(xpLex(keyPredicate(key)), <<>>).t # "err"

\* Whether the predicate selects a node whose key attribute is nodeKey.
xpathKeyMatch(key, nodeKey) ==
    xpToBool(xpOrExpr(xpLex(keyPredicate(key)), nodeKey))

\* The two operators above, tabulated once for the keys in use.
XPathTable ==
    [k \in Keys |-> [valid |-> xpathValid(k),
                     hits |-> {n \in Keys : xpathKeyMatch(k, n)}]]

\* ------------------------------------------------------------- documents
\* A parsed descriptor: the namespace prefixes its root declares, how many
\* elements each anchor query selects, and the children of the first element
\* each of the three section queries selects (the anchors the editor holds).
\* Whatever else the document contains is never touched and is left out.

Anchors == {"ProductSection", "VirtualHardwareSection", "AnnotationSection", "File"}

Node(tag, key, value, type, flag, text, comment) ==
    [tag |-> tag, key |-> key, value |-> value, type |-> type,
     flag |-> flag, text |-> text, comment |-> comment]

TextNode(tag, text) == Node(tag, <<>>, "", "", "", text, <<>>)

PyBool(b) == IF b THEN "true" ELSE "false"

\* self.nsMap: the root's prefixes, the default namespace (None) dropped
nsMap(doc) == doc.ns

\* self.xpath(path, namespaces=self.nsMap) with a prefix the map lacks raises
\* XPathEvalError (and self.nsName a KeyError)
xpathOk(doc, ns) == ns \in nsMap(doc)

\* self.xpathRemove('<tag>[@key="<key>"]', root): every matching child goes
xpathRemove(kids, tag, key) ==
    SelectSeq(kids, LAMBDA n : ~(n.tag = tag /\ n.key \in XPathTable[key].hits))

\* self.xpathRemove('<tag>', root)
xpathRemoveTag(kids, tag) == SelectSeq(kids, LAMBDA n : n.tag # tag)

Raised(doc) == [xml |-> doc, ok |-> FALSE]
Returned(doc) == [xml |-> doc, ok |-> TRUE]

setProductProperty(doc, key, value, type, userConfigurable, withComment) ==
    IF ~xpathOk(doc, "ovf") \/ ~XPathTable[key].valid THEN Raised(doc)
    ELSE Returned([doc EXCEPT !.prod =
            Append(xpathRemove(doc.prod, "Property", key),
                   Node("Property", key, value, type, PyBool(userConfigurable), "",
                        IF withComment THEN <<"value=", value>> ELSE <<>>))])

setExtraConfig(doc, key, value, required) ==
    IF ~xpathOk(doc, "vmw") \/ ~XPathTable[key].valid THEN Raised(doc)
    ELSE Returned([doc EXCEPT !.vhw =
            Append(xpathRemove(doc.vhw, "ExtraConfig", key),
                   Node("ExtraConfig", key, value, "", PyBool(required), "", <<>>))])

setAnnotation(doc, value) ==
    IF ~xpathOk(doc, "ovf") THEN Raised(doc)
    ELSE Returned([doc EXCEPT !.anno =
            Append(xpathRemoveTag(doc.anno, "Annotation"),
                   TextNode("Annotation", value))])

setVersionOnlyVersion(doc, version) ==
    LET i == SelectFirst(doc.prod, "Version", 1)
        j == SelectFirst(doc.prod, "FullVersion", 1)
    IN  IF i = 0 THEN Raised(doc)
        ELSE IF j = 0 THEN Raised([doc EXCEPT !.prod[i].text = version])
        ELSE Returned([doc EXCEPT !.prod[i].text = version])

setVersion(doc, version) ==
    LET i == SelectFirst(doc.prod, "Version", 1)
        d1 == [doc EXCEPT !.prod[i].text = version]
        j == SelectFirst(doc.prod, "FullVersion", 1)
    IN  IF i = 0 THEN Raised(doc)
        ELSE IF j = 0 THEN Raised(d1)
        ELSE Returned([d1 EXCEPT !.prod[j].text = version])

setProduct(doc, value) ==
    LET i == SelectFirst(doc.prod, "Product", 1)
    IN  IF i = 0 THEN Raised(doc)
        ELSE Returned([doc EXCEPT !.prod[i].text = value])

\* ----------------------------------------------------- files and parsing
\* A descriptor file: well-formed XML or not, whether its text is already in
\* the serializer's layout, and the tree it parses to.

EmptyDoc ==
    [ns |-> {}, count |-> [a \in Anchors |-> 0],
     prod |-> <<>>, vhw |-> <<>>, anno |-> <<>>]

NotXml == [xmlOk |-> FALSE, pretty |-> FALSE, tree |-> EmptyDoc]

XmlFile(pretty, doc) == [xmlOk |-> TRUE, pretty |-> pretty, tree |-> doc]

\* etree.parse(..., remove_blank_text=True): the layout is dropped
parseOvfXml(file) == file.tree

\* etree.tostring(pretty_print=True, xml_declaration=True, encoding='utf-8')
xmlToString(doc) == XmlFile(TRUE, doc)

\* hashlib digests: distinct texts and distinct algorithms, distinct digests
sha1(data) == [hex |-> "sha1", ch |-> "", of |-> data]
sha256(data) == [hex |-> "sha256", ch |-> "", of |-> data]

\* basename(ovfPath)
ovfFilename == "x.ovf"

\* difflib.unified_diff over the two texts: nothing when they are equal
unified_diff(a, b) == IF a = b THEN <<>> ELSE <<[from |-> a, to |-> b]>>

ovfDiffRawFile(doc, file) == unified_diff(file, xmlToString(doc))

ovfDiff(doc, file) ==
    unified_diff(xmlToString(parseOvfXml(file)), xmlToString(doc))

\* -------------------------------------------------------------- manifest
\* The manifest's text is a sequence of tokens: pieces of text (Ch) and hex
\* digests.  NL is the line feed, SP the space.

Ch(c) == [hex |-> "", ch |-> c, of |-> NotXml]
NL == Ch("NL")
SP == Ch("SP")
IsDigest(tok) == tok.hex # "" \/ tok.ch \in {"old1", "old2", "keep"}

NoFile == [exists |-> FALSE, data |-> <<>>]
File(data) == [exists |-> TRUE, data |-> data]

RECURSIVE readlines(_)
\* file.readlines(): each line keeps its line feed; the last may have none
readlines(data) ==
    LET j == IndexOf(data, NL, 1) IN
    IF data = <<>> THEN <<>>
    ELSE IF j = 0 THEN <<data>>
    ELSE <<SubSeq(data, 1, j)>> \o readlines(SubSeq(data, j + 1, Len(data)))

RECURSIVE Concat(_)
\* successive mfFile.write calls
Concat(lines) ==
    IF lines = <<>> THEN <<>> ELSE Head(lines) \o Concat(Tail(lines))

\* 'SHA1(%s)=' % name, 'SHA256(%s)=' % name
linePrefix(algo, name) == <<Ch(algo), Ch("("), Ch(name), Ch(")"), Ch("=")>>

manifestLineAnyFile(line, ovfString) ==
    IF startswith(line, <<Ch("SHA1"), Ch("(")>>)
    THEN linePrefix("SHA1", ovfFilename) \o <<SP, sha1(ovfString), NL>>
    ELSE IF startswith(line, <<Ch("SHA256"), Ch("(")>>)
    THEN linePrefix("SHA256", ovfFilename) \o <<SP, sha256(ovfString), NL>>
    ELSE line

\* The body of commitManifest's loop: what is written for one line read.
manifestLine(line, ovfString) ==
    IF startswith(line, linePrefix("SHA1", ovfFilename))
    THEN linePrefix("SHA1", ovfFilename) \o <<SP, sha1(ovfString), NL>>
    ELSE IF startswith(line, linePrefix("SHA256", ovfFilename))
    THEN linePrefix("SHA256", ovfFilename) \o <<SP, sha256(ovfString), NL>>
    ELSE line

\* commitManifest: FileNotFoundError when the sidecar is missing (the open for
\* reading comes first), otherwise the file rewritten line by line.
commitManifest(mf, ovfString) ==
    IF ~mf.exists THEN [mf |-> mf, ok |-> FALSE]
    ELSE LET lines == readlines(mf.data) IN
         [mf |-> File(Concat([i \in 1..Len(lines) |->
                                  manifestLine(lines[i], ovfString)])),
          ok |-> TRUE]

\* commitOvf: the descriptor file overwritten with the text
commitOvf(ovfString) == ovfString

commitManifestFirst(doc, ovf, mf) ==
    LET ovfString == xmlToString(doc)
        m == commitManifest(mf, ovfString)
    IN  [ovf |-> IF m.ok THEN commitOvf(ovfString) ELSE ovf,
         mf |-> m.mf, ok |-> m.ok]

commitStaleDigest(doc, ovf, mf) ==
    LET m == commitManifest(mf, ovf)
    IN  [ovf |-> commitOvf(xmlToString(doc)), mf |-> m.mf, ok |-> m.ok]

\* commit: descriptor first, manifest second
commit(doc, ovf, mf) ==
    LET ovfString == xmlToString(doc)
        m == commitManifest(mf, ovfString)
    IN  [ovf |-> commitOvf(ovfString), mf |-> m.mf, ok |-> m.ok]

\* -------------------------------------------------------------- fixtures
\* The descriptors and manifests a run starts from: a standard pair and the
\* variants that differ from it in one respect.

StdProperty == Node("Property", KeyA, "v1", "string", "false", "", <<>>)

StdDoc ==
    [ns |-> {"ovf", "vmw"}, count |-> [a \in Anchors |-> 1],
     prod |-> <<TextNode("Product", "o"), TextNode("Version", "o"),
                TextNode("FullVersion", "o"), StdProperty>>,
     vhw |-> <<TextNode("System", "o")>>,
     anno |-> <<TextNode("Info", "o"), TextNode("Annotation", "o")>>]

\* One anchor query selecting no element; every anchor query selecting two.
CountVariants ==
    {[StdDoc EXCEPT !.count[a] = 0,
                    !.prod = IF a = "ProductSection" THEN <<>> ELSE @,
                    !.vhw = IF a = "VirtualHardwareSection" THEN <<>> ELSE @,
                    !.anno = IF a = "AnnotationSection" THEN <<>> ELSE @]
     : a \in Anchors}
    \cup {[StdDoc EXCEPT !.count = [a \in Anchors |-> 2]]}

\* A root that does not declare the ovf prefix, or the vmw prefix.
NsVariants == {[StdDoc EXCEPT !.ns = {"vmw"}], [StdDoc EXCEPT !.ns = {"ovf"}]}

\* ProductSection without FullVersion and with the key "a" twice;
\* ProductSection with FullVersion alone and AnnotationSection without Annotation.
ContentVariants ==
    {[StdDoc EXCEPT !.prod = <<TextNode("Product", "o"), TextNode("Version", "o"),
                               StdProperty, [StdProperty EXCEPT !.value = "v2"]>>],
     [StdDoc EXCEPT !.prod = <<TextNode("FullVersion", "o")>>,
                    !.anno = <<TextNode("Info", "o")>>]}

OvfLine(algo, sep, digest) == linePrefix(algo, ovfFilename) \o sep \o <<Ch(digest)>>
DiskLine == linePrefix("SHA256", "disk.vmdk") \o <<SP, Ch("keep"), NL>>

StdManifest == File(OvfLine("SHA256", <<SP>>, "old2") \o <<NL>> \o DiskLine)

\* Both algorithms without a space after "=", text after a digest, lines that
\* only resemble the descriptor's, and a last line without a line feed.
MixedManifest ==
    File(OvfLine("SHA1", <<>>, "old1") \o <<NL>>
         \o OvfLine("SHA256", <<>>, "old2") \o <<SP, Ch("note"), NL>>
         \o DiskLine
         \o <<SP>> \o OvfLine("SHA1", <<SP>>, "old1") \o <<NL>>
         \o linePrefix("SHA512", ovfFilename) \o <<SP, Ch("old2"), NL>>
         \o linePrefix("SHA256", "x.ovf.bak") \o <<SP, Ch("keep"), NL>>
         \o OvfLine("SHA1", <<SP>>, "old1"))

\* An unrelated last line without a line feed.
OpenEndManifest ==
    File(OvfLine("SHA256", <<SP>>, "old2") \o <<NL>>
         \o linePrefix("SHA1", "disk.vmdk") \o <<SP, Ch("keep")>>)

ManifestVariants == {NoFile, MixedManifest, OpenEndManifest}

Fixtures ==
    {[ovf |-> XmlFile(FALSE, StdDoc), mf |-> StdManifest]}
    \cup {[ovf |-> XmlFile(d.count["File"] = 2, d), mf |-> StdManifest]
          : d \in CountVariants \cup NsVariants \cup ContentVariants}
    \cup {[ovf |-> NotXml, mf |-> StdManifest]}
    \cup {[ovf |-> XmlFile(FALSE, StdDoc), mf |-> m] : m \in ManifestVariants}

\* ----------------------------------------------------------------- state

VARIABLES
    ovfFile,   \* the descriptor file on disk
    mfFile,    \* the manifest file on disk
    xml,       \* self.ovfXml with the anchors' children
    pc,        \* where the caller stands
    last,      \* the last operation called, its arguments and whether it returned
    out,       \* what the last call returned when it was ovfDiff, else empty
    written,   \* per key, the value of the last setProductProperty that returned
    calls,     \* mutator calls made so far
    args,      \* the command line (script runs only)
    disk0      \* the two files as they were at the start

vars == <<ovfFile, mfFile, xml, pc, last, out, written, calls, args, disk0>>

Op(op, ok, key, value) == [op |-> op, ok |-> ok, key |-> key, value |-> value]

\* Python's None, as an argument that was not given.
None == "None"
NoneKey == <<"None">>

NoArgs ==
    [set_annotation |-> None, set_product |-> None, set_version |-> None,
     pprop_key |-> NoneKey, pprop_val |-> None, pprop_valfile |-> None,
     pprop_json |-> FALSE, pprop_comment |-> FALSE,
     diff |-> FALSE, dry |-> FALSE]

\* OVFCustomizer.__init__: parse, then the four anchor queries, each indexed [0]
OVFCustomizerExactlyOne(file) ==
    IF ~file.xmlOk THEN [xml |-> EmptyDoc, ok |-> FALSE]
    ELSE LET doc == parseOvfXml(file) IN
         IF ~xpathOk(doc, "ovf") THEN [xml |-> EmptyDoc, ok |-> FALSE]
         ELSE IF \E a \in Anchors : doc.count[a] # 1
         THEN [xml |-> EmptyDoc, ok |-> FALSE]
         ELSE [xml |-> doc, ok |-> TRUE]

OVFCustomizer(file) ==
    IF ~file.xmlOk THEN [xml |-> EmptyDoc, ok |-> FALSE]
    ELSE LET doc == parseOvfXml(file) IN
         IF ~xpathOk(doc, "ovf") THEN [xml |-> EmptyDoc, ok |-> FALSE]
         ELSE IF \E a \in Anchors : doc.count[a] = 0
         THEN [xml |-> EmptyDoc, ok |-> FALSE]
         ELSE [xml |-> doc, ok |-> TRUE]

Init ==
    /\ \E f \in Fixtures :
          /\ ovfFile = f.ovf
          /\ mfFile = f.mf
          /\ disk0 = f
    /\ xml = EmptyDoc
    /\ pc = "new"
    /\ last = Op("none", TRUE, <<>>, "")
    /\ out = <<>>
    /\ written = [k \in Keys |-> "none"]
    /\ calls = 0
    /\ args = NoArgs

\* ---------------------------------------------- the editor, call by call

Load ==
    /\ pc = "new"
    /\ LET r == OVFCustomizer(ovfFile) IN
          /\ xml' = r.xml
          /\ pc' = IF r.ok THEN "loaded" ELSE "failed"
          /\ last' = Op("load", r.ok, <<>>, "")
    /\ UNCHANGED <<ovfFile, mfFile, out, written, calls, args, disk0>>

CallSetProductProperty ==
    /\ pc = "loaded"
    /\ calls < MaxCalls
    /\ \E key \in CallKeys, value \in Values, withComment \in {FALSE} :
          LET r == setProductProperty(xml, key, value, "string", FALSE, withComment) IN
          /\ xml' = r.xml
          /\ last' = Op("setProductProperty", r.ok, key, value)
          /\ written' = IF r.ok THEN [written EXCEPT ![key] = value] ELSE written
    /\ calls' = calls + 1
    /\ out' = <<>>
    /\ UNCHANGED <<ovfFile, mfFile, pc, args, disk0>>

CallSetExtraConfig ==
    /\ pc = "loaded"
    /\ calls < MaxCalls
    /\ \E key \in CallExtraKeys, value \in Values, required \in {FALSE} :
          LET r == setExtraConfig(xml, key, value, required) IN
          /\ xml' = r.xml
          /\ last' = Op("setExtraConfig", r.ok, key, value)
    /\ calls' = calls + 1
    /\ out' = <<>>
    /\ UNCHANGED <<ovfFile, mfFile, pc, written, args, disk0>>

CallSetAnnotation ==
    /\ pc = "loaded"
    /\ calls < MaxCalls
    /\ \E value \in Values :
          LET r == setAnnotation(xml, value) IN
          /\ xml' = r.xml
          /\ last' = Op("setAnnotation", r.ok, <<>>, value)
    /\ calls' = calls + 1
    /\ out' = <<>>
    /\ UNCHANGED <<ovfFile, mfFile, pc, written, args, disk0>>

CallSetVersion ==
    /\ pc = "loaded"
    /\ calls < MaxCalls
    /\ \E value \in Values :
          LET r == setVersion(xml, value) IN
          /\ xml' = r.xml
          /\ last' = Op("setVersion", r.ok, <<>>, value)
    /\ calls' = calls + 1
    /\ out' = <<>>
    /\ UNCHANGED <<ovfFile, mfFile, pc, written, args, disk0>>

CallSetProduct ==
    /\ pc = "loaded"
    /\ calls < MaxCalls
    /\ \E value \in Values :
          LET r == setProduct(xml, value) IN
          /\ xml' = r.xml
          /\ last' = Op("setProduct", r.ok, <<>>, value)
    /\ calls' = calls + 1
    /\ out' = <<>>
    /\ UNCHANGED <<ovfFile, mfFile, pc, written, args, disk0>>

CallOvfDiff ==
    /\ pc = "loaded"
    /\ out' = ovfDiff(xml, ovfFile)
    /\ last' = Op("ovfDiff", TRUE, <<>>, "")
    /\ UNCHANGED <<ovfFile, mfFile, xml, pc, written, calls, args, disk0>>

CallCommit ==
    /\ pc = "loaded"
    /\ LET r == commit(xml, ovfFile, mfFile) IN
          /\ ovfFile' = r.ovf
          /\ mfFile' = r.mf
          /\ last' = Op("commit", r.ok, <<>>, "")
    /\ out' = <<>>
    /\ UNCHANGED <<xml, pc, written, calls, args, disk0>>

Next ==
    \/ Load
    \/ CallSetProductProperty
    \/ CallSetExtraConfig
    \/ CallSetAnnotation
    \/ CallSetVersion
    \/ CallSetProduct
    \/ CallOvfDiff
    \/ CallCommit

Spec == Init /\ [][Next]_vars

\* ------------------------------------------------- the script, step by step
\* The __main__ block run on a plain descriptor path (lines 215-247).

\* --pprop_val and --pprop_valfile exclude each other (argparse group, line 182).
\* "j1" is JSON text that is not in json.dumps' layout; "unreadable" is a value
\* file that cannot be opened.
ArgSets ==
    {a \in [set_annotation : {None, "v1"}, set_product : {None, "v1"},
            set_version : {None, "v2"},
            pprop_key : {NoneKey, KeyA, KeyBad},
            pprop_val : {None, "v1", "j1"},
            pprop_valfile : {None, "v2", "unreadable"},
            pprop_json : BOOLEAN, pprop_comment : BOOLEAN,
            diff : BOOLEAN, dry : BOOLEAN]
       : a.pprop_val = None \/ a.pprop_valfile = None}

MainFixtures ==
    {f \in Fixtures :
        \/ f.mf # StdManifest
        \/ f.ovf = NotXml
        \/ f.ovf.tree = StdDoc
        \/ f.ovf.tree.count["ProductSection"] = 0
        \/ f.ovf.tree \in ContentVariants}

\* json.dumps(json.loads(value)): a ValueError on text that is not JSON
jsonRoundTrip(value) ==
    IF value \in {"j1", "j1c"} THEN [value |-> "j1c", ok |-> TRUE]
    ELSE [value |-> value, ok |-> FALSE]

\* Lines 227-235: the value of the product property, or why there is none.
ppropValue(a) ==
    IF a.pprop_val # None THEN [value |-> a.pprop_val, ok |-> TRUE, why |-> ""]
    ELSE IF a.pprop_valfile # None
    THEN IF a.pprop_valfile = "unreadable"
         THEN [value |-> "", ok |-> FALSE, why |-> "IOError"]
         ELSE [value |-> a.pprop_valfile, ok |-> TRUE, why |-> ""]
    ELSE [value |-> "", ok |-> FALSE, why |-> "exit1"]

writesAlways(a) == TRUE

\* Line 246: if not args.dry
writes(a) == ~a.dry

MainInit ==
    /\ \E f \in MainFixtures :
          /\ ovfFile = f.ovf
          /\ mfFile = f.mf
          /\ disk0 = f
    /\ xml = EmptyDoc
    /\ pc = "load"
    /\ last = Op("none", TRUE, <<>>, "")
    /\ out = <<>>
    /\ written = [k \in Keys |-> "none"]
    /\ calls = 0
    /\ args \in ArgSets

MainLoad ==
    /\ pc = "load"
    /\ LET r == OVFCustomizer(ovfFile) IN
          /\ xml' = r.xml
          /\ pc' = IF r.ok THEN "annotation" ELSE "failed"
          /\ last' = Op("load", r.ok, <<>>, "")
    /\ UNCHANGED <<ovfFile, mfFile, out, written, calls, args, disk0>>

MainSetAnnotation ==
    /\ pc = "annotation"
    /\ IF args.set_annotation = None
       THEN /\ pc' = "product"
            /\ UNCHANGED <<xml, last>>
       ELSE LET r == setAnnotation(xml, args.set_annotation) IN
            /\ xml' = r.xml
            /\ pc' = IF r.ok THEN "product" ELSE "failed"
            /\ last' = Op("setAnnotation", r.ok, <<>>, args.set_annotation)
    /\ UNCHANGED <<ovfFile, mfFile, out, written, calls, args, disk0>>

MainSetProduct ==
    /\ pc = "product"
    /\ IF args.set_product = None
       THEN /\ pc' = "version"
            /\ UNCHANGED <<xml, last>>
       ELSE LET r == setProduct(xml, args.set_product) IN
            /\ xml' = r.xml
            /\ pc' = IF r.ok THEN "version" ELSE "failed"
            /\ last' = Op("setProduct", r.ok, <<>>, args.set_product)
    /\ UNCHANGED <<ovfFile, mfFile, out, written, calls, args, disk0>>

MainSetVersion ==
    /\ pc = "version"
    /\ IF args.set_version = None
       THEN /\ pc' = "pprop"
            /\ UNCHANGED <<xml, last>>
       ELSE LET r == setVersion(xml, args.set_version) IN
            /\ xml' = r.xml
            /\ pc' = IF r.ok THEN "pprop" ELSE "failed"
            /\ last' = Op("setVersion", r.ok, <<>>, args.set_version)
    /\ UNCHANGED <<ovfFile, mfFile, out, written, calls, args, disk0>>

MainPprop ==
    /\ pc = "pprop"
    /\ IF args.pprop_key = NoneKey
       THEN /\ pc' = "diff"
            /\ UNCHANGED <<xml, last, written>>
       ELSE LET v == ppropValue(args)
                j == IF args.pprop_json THEN jsonRoundTrip(v.value)
                     ELSE [value |-> v.value, ok |-> TRUE]
                r == setProductProperty(xml, args.pprop_key, j.value, "string",
                                        FALSE, args.pprop_comment)
            IN  IF ~v.ok
                THEN /\ pc' = "failed"
                     /\ last' = Op("pprop_val", FALSE, args.pprop_key, v.why)
                     /\ UNCHANGED <<xml, written>>
                ELSE IF ~j.ok
                THEN /\ pc' = "failed"
                     /\ last' = Op("pprop_json", FALSE, args.pprop_key, v.value)
                     /\ UNCHANGED <<xml, written>>
                ELSE /\ xml' = r.xml
                     /\ pc' = IF r.ok THEN "diff" ELSE "failed"
                     /\ last' = Op("setProductProperty", r.ok, args.pprop_key, j.value)
                     /\ written' = IF r.ok
                                   THEN [written EXCEPT ![args.pprop_key] = j.value]
                                   ELSE written
    /\ UNCHANGED <<ovfFile, mfFile, out, calls, args, disk0>>

MainDiff ==
    /\ pc = "diff"
    /\ pc' = "commit"
    /\ IF args.diff
       THEN /\ out' = ovfDiff(xml, ovfFile)
            /\ last' = Op("ovfDiff", TRUE, <<>>, "")
       ELSE UNCHANGED <<out, last>>
    /\ UNCHANGED <<ovfFile, mfFile, xml, written, calls, args, disk0>>

MainCommit ==
    /\ pc = "commit"
    /\ IF writes(args)
       THEN LET r == commit(xml, ovfFile, mfFile) IN
            /\ ovfFile' = r.ovf
            /\ mfFile' = r.mf
            /\ pc' = IF r.ok THEN "done" ELSE "failed"
            /\ last' = Op("commit", r.ok, <<>>, "")
       ELSE /\ pc' = "done"
            /\ UNCHANGED <<ovfFile, mfFile, last>>
    /\ UNCHANGED <<xml, out, written, calls, args, disk0>>

MainNext ==
    \/ MainLoad
    \/ MainSetAnnotation
    \/ MainSetProduct
    \/ MainSetVersion
    \/ MainPprop
    \/ MainDiff
    \/ MainCommit

MainSpec == MainInit /\ [][MainNext]_vars

\* ---------------------------------------------------------------- claims

PropertyHits(doc, key) ==
    {i \in 1..Len(doc.prod) :
        doc.prod[i].tag = "Property" /\ doc.prod[i].key = key}

\* C1: after any sequence of setProductProperty calls, every key used in a
\* call that returned has exactly one Property node under ProductSection,
\* and that node carries the value of the most recent call for the key.
C1_LastWriteWins ==
    pc = "loaded" =>
        \A k \in Keys :
            written[k] # "none" =>
                /\ Cardinality(PropertyHits(xml, k)) = 1
                /\ \A i \in PropertyHits(xml, k) : xml.prod[i].value = written[k]

IsOvfLine(line) ==
    \/ startswith(line, linePrefix("SHA1", ovfFilename))
    \/ startswith(line, linePrefix("SHA256", ovfFilename))

OnlyDigestDiffers(a, b) ==
    /\ Len(a) = Len(b)
    /\ \A j \in 1..Len(a) : a[j] # b[j] => IsDigest(a[j]) /\ IsDigest(b[j])

\* C2 as stated: commitManifest keeps the number and order of lines, writes
\* every line that is not the descriptor's back unchanged, and changes nothing
\* but the hex digest in a line that is the descriptor's.
C2_OnlyDigestChanges ==
    [][(CallCommit /\ mfFile.exists) =>
        LET before == readlines(mfFile.data)
            after == readlines(mfFile'.data)
        IN  /\ Len(after) = Len(before)
            /\ \A i \in 1..Len(before) :
                  IF IsOvfLine(before[i])
                  THEN OnlyDigestDiffers(before[i], after[i])
                  ELSE after[i] = before[i]]_vars

\* C2 as amended: the number and order of lines are kept, every line that is
\* not the descriptor's is written back unchanged, and a line that is the
\* descriptor's keeps its algorithm label and filename while everything after
\* the "=" becomes one space, the new digest and a line feed.
C2_ManifestRewrite ==
    [][(CallCommit /\ mfFile.exists) =>
        LET before == readlines(mfFile.data)
            after == readlines(mfFile'.data)
        IN  /\ Len(after) = Len(before)
            /\ \A i \in 1..Len(before) :
                  IF IsOvfLine(before[i])
                  THEN /\ SubSeq(after[i], 1, 5) = SubSeq(before[i], 1, 5)
                       /\ Len(after[i]) = 8
                       /\ after[i][6] = SP
                       /\ after[i][7].hex # ""
                       /\ after[i][8] = NL
                  ELSE after[i] = before[i]]_vars

C2_Witness ==
    /\ last.op = "commit" /\ last.ok
    /\ disk0.mf = MixedManifest
    /\ mfFile # disk0.mf
    /\ Len(readlines(mfFile.data)) = Len(readlines(disk0.mf.data))

\* C3: after a commit that returned, the descriptor file holds the
\* serialization of the in-memory document, and every manifest line for the
\* descriptor holds the digest of that text under the line's own algorithm.
C3_CommitConsistent ==
    (last.op = "commit" /\ last.ok) =>
        /\ ovfFile = xmlToString(xml)
        /\ \A i \in 1..Len(readlines(mfFile.data)) :
              LET line == readlines(mfFile.data)[i] IN
              /\ startswith(line, linePrefix("SHA1", ovfFilename))
                    => line[7] = sha1(ovfFile)
              /\ startswith(line, linePrefix("SHA256", ovfFilename))
                    => line[7] = sha256(ovfFile)

C3_Witness ==
    /\ last.op = "commit" /\ last.ok
    /\ calls = MaxCalls
    /\ disk0.mf = MixedManifest
    /\ parseOvfXml(disk0.ovf) # xml

\* C4: in a run of the script that fails before commit, or has --dry, the
\* descriptor and the manifest are at every point what they were at the start.
C4_WrittenOnlyByCommit ==
    (args.dry \/ (pc = "failed" /\ last.op # "commit")) =>
        /\ ovfFile = disk0.ovf
        /\ mfFile = disk0.mf

C4_Witness ==
    /\ pc = "done" /\ args.dry /\ args.diff
    /\ xml # parseOvfXml(ovfFile)
    /\ out # <<>>

MutatorCalls(doc) ==
    {[r |-> setProductProperty(doc, k, v, "string", FALSE, c), own |-> "prod"]
        : k \in Keys, v \in Values, c \in BOOLEAN}
    \cup {[r |-> setExtraConfig(doc, k, v, q), own |-> "vhw"]
        : k \in Keys, v \in Values, q \in BOOLEAN}
    \cup {[r |-> setAnnotation(doc, v), own |-> "anno"] : v \in Values}
    \cup {[r |-> setVersion(doc, v), own |-> "prod"] : v \in Values}
    \cup {[r |-> setProduct(doc, v), own |-> "prod"] : v \in Values}

\* C7: every mutator changes only the subtree of its own anchor, and calling
\* it a second time with the same arguments leaves the document as the first
\* call left it.
C7_FrameAndIdempotent ==
    pc = "loaded" =>
        /\ \A c \in MutatorCalls(xml) :
              \A f \in {"ns", "count", "prod", "vhw", "anno"} \ {c.own} :
                  c.r.xml[f] = xml[f]
        /\ \A k \in Keys, v \in Values, c \in BOOLEAN :
              LET once == setProductProperty(xml, k, v, "string", FALSE, c).xml
              IN  setProductProperty(once, k, v, "string", FALSE, c).xml = once
        /\ \A k \in Keys, v \in Values, q \in BOOLEAN :
              LET once == setExtraConfig(xml, k, v, q).xml
              IN  setExtraConfig(once, k, v, q).xml = once
        /\ \A v \in Values :
              /\ LET once == setAnnotation(xml, v).xml
                 IN  setAnnotation(once, v).xml = once
              /\ LET once == setVersion(xml, v).xml
                 IN  setVersion(once, v).xml = once
              /\ LET once == setProduct(xml, v).xml
                 IN  setProduct(once, v).xml = once

\* C8: when a product-property key comes without a value, the run fails
\* with no mutation of the in-memory document applied.
C8_NoMutationBeforeInputError ==
    (pc = "failed" /\ last.op = "pprop_val" /\ last.value = "exit1") =>
        xml = parseOvfXml(ovfFile)

\* C9: setVersion(v) on a ProductSection with a Version and a FullVersion
\* child leaves the text of both equal to v; when either is absent it fails.
C9_SetVersion ==
    [][CallSetVersion =>
        LET i == SelectFirst(xml.prod, "Version", 1)
            j == SelectFirst(xml.prod, "FullVersion", 1)
        IN  IF i # 0 /\ j # 0
            THEN /\ last'.ok
                 /\ xml'.prod[i].text = last'.value
                 /\ xml'.prod[j].text = last'.value
            ELSE ~last'.ok]_vars

C9_Witness ==
    /\ last.op = "setVersion" /\ last.ok
    /\ \E i, j \in 1..Len(xml.prod) :
          /\ xml.prod[i].tag = "Version" /\ xml.prod[i].text = "v2"
          /\ xml.prod[j].tag = "FullVersion" /\ xml.prod[j].text = "v2"

\* C10: a commit with no manifest file fails, creates no manifest, and has
\* by then overwritten the descriptor with the new serialization.
C10_NoRollback ==
    [][(CallCommit /\ ~mfFile.exists) =>
        /\ ~last'.ok
        /\ mfFile' = NoFile
        /\ ovfFile' = xmlToString(xml)]_vars

C10_Witness ==
    /\ last.op = "commit" /\ ~last.ok
    /\ mfFile = NoFile
    /\ ovfFile # disk0.ovf
    /\ ovfFile = xmlToString(xml)
    /\ calls > 0

====
